---- MODULE Spec2Model ----
(***************************************************************************)
(* The card primitives (card.rs, deck.rs, hand.rs) and the game of War     *)
(* (games/war.rs) of naipe, with the driver loop of bin/war.rs.            *)
(*                                                                         *)
(* A pile (Deck.cards, Hand.cards) is a sequence whose last element is the *)
(* top.  An Option<Card> is a sequence of length 0 (None) or 1 (Some).     *)
(* A shuffle is a nondeterministic choice among all permutations, so an    *)
(* operation that shuffles has a set of outcomes.                          *)
(* The game is played with the cards of the first NumSuits suits and the   *)
(* first NumRanks ranks of Card::all_cards().                              *)
(***************************************************************************)
EXTENDS Integers, Sequences, FiniteSets, TLC

\* Bounds of the model.  Spec plays a deck of NumSuits * NumRanks cards for
\* any number of ticks; SpecWide plays all four suits of the first WideRanks
\* ranks for at most MaxTicks ticks.
NumSuits == 2
NumRanks == 3
WideRanks == 2
MaxTicks == 3
LateRanks == 5
LateShuffled == 7
LateTicks == 2

\* SpecDeck calls the dealing functions of a deck of up to Len(wide_cards)
\* cards with up to MaxHands supplied hands; a usize there has UsizeBits
\* bits (64 in the build), so that the arguments range over every usize.
MaxHands == 3
UsizeBits == 4

---------------------------------------------------------------------------
(* card.rs *)

\* enum Rank, in declaration order: #[derive(Ord)] compares by this order.
Rank == <<"Two", "Three", "Four", "Five", "Six", "Seven", "Eight", "Nine",
          "Ten", "Jack", "Queen", "King", "Ace">>

\* Rank::all_ranks(), in the order the vector lists them.
all_ranks == <<"Ace", "Two", "Three", "Four", "Five", "Six", "Seven",
               "Eight", "Nine", "Ten", "Jack", "Queen", "King">>

\* Suit::all_suits()
all_suits == <<"Spade", "Club", "Heart", "Diamond">>

\* The discriminant of a rank: its position in the enum declaration.
RankOrd == [r \in {Rank[i] : i \in 1..Len(Rank)} |->
               CHOOSE i \in 1..Len(Rank) : Rank[i] = r]

\* The derived Ord of integers-like discriminants, as std::cmp::Ordering.
OrdCmp(a, b) == IF a < b THEN "Less" ELSE IF a > b THEN "Greater" ELSE "Equal"

\* A comparison of ranks by their place in all_ranks().
RankCmp_AllRanks(r1, r2) ==
    OrdCmp(CHOOSE i \in 1..Len(all_ranks) : all_ranks[i] = r1,
           CHOOSE i \in 1..Len(all_ranks) : all_ranks[i] = r2)

\* Rank::cmp (derived)
RankCmp(r1, r2) == OrdCmp(RankOrd[r1], RankOrd[r2])

\* Card::new
Card(suit, rank) == [suit |-> suit, rank |-> rank]

\* The comparison derived for Card: by suit first, then by rank.
SuitlessCmp_Derived(c1, c2) ==
    IF c1.suit = c2.suit THEN RankCmp(c1.rank, c2.rank)
    ELSE OrdCmp(CHOOSE i \in 1..Len(all_suits) : all_suits[i] = c1.suit,
                CHOOSE i \in 1..Len(all_suits) : all_suits[i] = c2.suit)

\* A comparison that ranks the cards the wrong way round.
SuitlessCmp_Reversed(c1, c2) == RankCmp(c2.rank, c1.rank)

\* impl Ord for Suitless: compares the ranks only.
SuitlessCmp(c1, c2) == RankCmp(c1.rank, c2.rank)

\* Card::all_cards() over the given suits and ranks: suits outermost.
AllCardsOf(suits, ranks) ==
    [k \in 1..(Len(suits) * Len(ranks)) |->
        Card(suits[((k - 1) \div Len(ranks)) + 1],
             ranks[((k - 1) % Len(ranks)) + 1])]

\* The set of cards Spec plays with.
all_cards == AllCardsOf(SubSeq(all_suits, 1, NumSuits),
                        SubSeq(all_ranks, 1, NumRanks))

\* The set of cards SpecWide plays with.
wide_cards == AllCardsOf(all_suits, SubSeq(all_ranks, 1, WideRanks))

\* The set of cards SpecLate plays with.
late_cards == AllCardsOf(SubSeq(all_suits, 1, NumSuits),
                         SubSeq(all_ranks, 1, LateRanks))

\* The cards of SpecCourt: the first NumSuits suits of Ace, Two and King.
court_ranks == <<"Ace", "Two", "King">>
court_cards == AllCardsOf(SubSeq(all_suits, 1, NumSuits), court_ranks)

\* Card::all_cards(): the 52 cards.
full_cards == AllCardsOf(all_suits, all_ranks)

\* impl PartialEq for Suitless
SuitlessEq(c1, c2) == c1.rank = c2.rank

---------------------------------------------------------------------------
(* Options and piles *)

None == <<>>
Some(c) == <<c>>

Range(s) == {s[i] : i \in 1..Len(s)}

\* Vec::pop as used by Hand::pop: the popped Option and the remaining pile.
HandPop(cards) ==
    IF cards = <<>>
    THEN [card |-> None, rest |-> cards]
    ELSE [card |-> Some(cards[Len(cards)]),
          rest |-> SubSeq(cards, 1, Len(cards) - 1)]

\* Every order of the first n cards of a pile: each is card n put anywhere
\* into an order of the first n - 1.
RECURSIVE Orders(_, _)
Orders(cards, n) ==
    IF n = 0 THEN {<<>>}
    ELSE {(SubSeq(p, 1, i) \o <<cards[n]>>) \o SubSeq(p, i + 1, n - 1) :
             p \in Orders(cards, n - 1), i \in 0..(n - 1)}

\* Deck::shuffle / shuffle_with_default_rng: every permutation is possible.
Shuffle(cards) == Orders(cards, Len(cards))

---------------------------------------------------------------------------
(* deck.rs *)

\* Deck::new(sets), where `cards` is what Card::all_cards() returns.
DeckNew(cards, sets) ==
    [k \in 1..(sets * Len(cards)) |-> cards[((k - 1) % Len(cards)) + 1]]

\* A dealing loop that fills one hand before it goes on to the next.
RECURSIVE DealLoop_Blocks(_, _, _, _, _)
DealLoop_Blocks(cards, hands, hand_count, k, total) ==
    IF k = total THEN hands
    ELSE DealLoop_Blocks(cards,
                  [hands EXCEPT ![(k \div (total \div hand_count)) + 1] =
                                    Append(@, cards[Len(cards) - k])],
                  hand_count, k + 1, total)

\* The two nested loops of deal_cards after k pops: the next pop takes the
\* top of what is left of `cards` (k cards are gone) for hand k mod hand_count.
RECURSIVE DealLoop(_, _, _, _, _)
DealLoop(cards, hands, hand_count, k, total) ==
    IF k = total THEN hands
    ELSE DealLoop(cards,
                  [hands EXCEPT ![(k % hand_count) + 1] =
                                    Append(@, cards[Len(cards) - k])],
                  hand_count, k + 1, total)

\* The values of a usize.
UsizeLimit == 2 ^ UsizeBits
Usize == 0..(UsizeLimit - 1)

\* Deck::deal_cards.  "overflow" is the result when hand_count *
\* cards_per_hand does not fit a usize; what the call then does depends on
\* the build (DealOverflow).
deal_cards(cards, hand_count, cards_per_hand) ==
    IF hand_count * cards_per_hand >= UsizeLimit
    THEN [res |-> "overflow", hands |-> <<>>, cards |-> cards]
    ELSE IF Len(cards) < hand_count * cards_per_hand
    THEN [res |-> "NotEnoughCards", hands |-> <<>>, cards |-> cards]
    ELSE [res |-> "Ok",
          hands |-> DealLoop(cards, [i \in 1..hand_count |-> <<>>], hand_count,
                             0, hand_count * cards_per_hand),
          cards |-> SubSeq(cards, 1, Len(cards) - hand_count * cards_per_hand)]

\* deal_cards when hand_count * cards_per_hand overflows.  With overflow
\* checks (debug) the multiplication panics.  Without them (release) the
\* product wraps: the guard returns NotEnoughCards when the deck is shorter
\* than the wrapped product, and otherwise the hand_count vectors of
\* capacity cards_per_hand (more than a usize of cards together) cannot be
\* allocated, which aborts before any card is popped.
DealOverflow(cards, hand_count, cards_per_hand) ==
    {[res |-> "panic", hands |-> <<>>, cards |-> cards]}
    \cup (IF Len(cards) < (hand_count * cards_per_hand) % UsizeLimit
          THEN {[res |-> "NotEnoughCards", hands |-> <<>>, cards |-> cards]}
          ELSE {})

\* Every outcome of a call: the one of the function, or on overflow the
\* ones the builds can produce.
Built(d, cards, hand_count, cards_per_hand) ==
    IF d.res = "overflow"
    THEN DealOverflow(cards, hand_count, cards_per_hand)
    ELSE {d}

\* The zip of deal_cards_to_hands and deal_all_cards_to_hands: each hand is
\* extended by its bucket; an error of the deal returns before the zip.
ExtendHands(d, hands) ==
    IF d.res # "Ok" THEN [res |-> d.res, hands |-> hands, cards |-> d.cards]
    ELSE [res |-> "Ok",
          hands |-> [i \in 1..Len(hands) |-> hands[i] \o d.hands[i]],
          cards |-> d.cards]

\* Deck::deal_cards_to_hands
deal_cards_to_hands(cards, hands, cards_per_hand) ==
    ExtendHands(deal_cards(cards, Len(hands), cards_per_hand), hands)

\* A deal_all_cards that wants more cards than recipients.
deal_all_cards_Strict(cards, hand_count) ==
    IF Len(cards) <= hand_count
    THEN [res |-> "NotEnoughCards", hands |-> <<>>, cards |-> cards]
    ELSE IF hand_count = 0
    THEN [res |-> "panic", hands |-> <<>>, cards |-> cards]
    ELSE deal_cards(cards, hand_count, Len(cards) \div hand_count)

\* Deck::deal_all_cards: the division by hand_count aborts when it is zero.
deal_all_cards(cards, hand_count) ==
    IF Len(cards) < hand_count
    THEN [res |-> "NotEnoughCards", hands |-> <<>>, cards |-> cards]
    ELSE IF hand_count = 0
    THEN [res |-> "panic", hands |-> <<>>, cards |-> cards]
    ELSE deal_cards(cards, hand_count, Len(cards) \div hand_count)

\* A deal_all_cards_to_hands that holds back one round of cards.
deal_all_cards_to_hands_Short(cards, hands) ==
    ExtendHands(deal_cards(cards, Len(hands),
                           (Len(cards) \div Len(hands)) - 1), hands)

\* Deck::deal_all_cards_to_hands: each hand is extended by its bucket.
deal_all_cards_to_hands(cards, hands) ==
    LET d == deal_all_cards(cards, Len(hands))
    IN  IF d.res # "Ok" THEN [res |-> d.res, hands |-> hands, cards |-> d.cards]
        ELSE [res |-> "Ok",
              hands |-> [i \in 1..Len(hands) |-> hands[i] \o d.hands[i]],
              cards |-> d.cards]

---------------------------------------------------------------------------
(* games/war.rs *)

VARIABLES
    player_1_hand,      \* WarGame.player_1_hand
    player_2_hand,      \* WarGame.player_2_hand
    player_1_capture,   \* WarGame.player_1_capture
    player_2_capture,   \* WarGame.player_2_capture
    result,             \* how the last tick ended: "start" before any tick,
                        \* "Ok(true)", "Ok(false)", or the abort it ended in
    refilled,           \* the four piles after the refill step of the last tick
    player_1_play,      \* locals of the last tick (None where never assigned)
    player_2_play,
    reward_cards,
    player_1_check,
    player_2_check,
    ordering,
    rounds,             \* passes of the tiebreak loop in the last tick
    ticks,              \* calls of tick the driver of SpecWide has made
    player_1_final,     \* locals of the last pass of the tiebreak loop
    player_2_final,
    round_start,        \* reward_cards.len() when the last pass began
    call                \* the call of a card or deck function (SpecDeck,
                        \* SpecCard): arguments, receiver and result

piles == <<player_1_hand, player_2_hand, player_1_capture, player_2_capture>>
locals == <<refilled, player_1_play, player_2_play, reward_cards,
            player_1_check, player_2_check, ordering, rounds,
            player_1_final, player_2_final, round_start>>
vars == <<piles, result, locals, ticks, call>>

\* No call of a card or deck function on its own: the value of `call` in
\* the specifications of the game.
NoCall ==
    [op |-> "none", hand_count |-> 0, cards_per_hand |-> 0,
     deck0 |-> <<>>, hands0 |-> <<>>, res |-> "", ret |-> <<>>,
     deck |-> <<>>, hands |-> <<>>,
     a |-> None, b |-> None, cmp |-> "", eq |-> FALSE]

\* The ways a tick can abort instead of returning.
Aborts == {"unreachable", "unwrap_none", "unwrap_err"}

\* The game as a value: the four fields of WarGame.
Game(h1, h2, c1, c2) == [h1 |-> h1, h2 |-> h2, c1 |-> c1, c2 |-> c2]

\* WarGame::player_1_won
player_1_won(g) == g.h2 = <<>> /\ g.c2 = <<>>

\* A test of player 1's loss that looks at player 2's capture pile.
player_2_won_WrongPile(g) == g.h1 = <<>> /\ g.c2 = <<>>

\* WarGame::player_2_won
player_2_won(g) == g.h1 = <<>> /\ g.c1 = <<>>

\* WarGame::player_1_card_count
player_1_card_count(g) == Len(g.h1) + Len(g.c1)

\* WarGame::player_2_card_count
player_2_card_count(g) == Len(g.h2) + Len(g.c2)

\* An end-of-game test that only looks for player 1's win.
Finished_Player1Only(g) == player_1_won(g)

\* The win check that opens tick.
Finished(g) == player_1_won(g) \/ player_2_won(g)

\* The work record of a tick: the piles and the locals of tick.
Work(g) ==
    [h1 |-> g.h1, h2 |-> g.h2, c1 |-> g.c1, c2 |-> g.c2, refilled |-> g,
     play1 |-> None, play2 |-> None, reward |-> <<>>, chk1 |-> None,
     chk2 |-> None, ordering |-> "", rounds |-> 0, abort |-> "",
     final1 |-> None, final2 |-> None, round_start |-> 0]

\* capture.deal_all_cards(1).unwrap()[0] extends the hand; d is the deal's result.
Extended(hand, d) ==
    IF d.res # "Ok"
    THEN [abort |-> "unwrap_err", hand |-> hand, capture |-> d.cards]
    ELSE [abort |-> "", hand |-> hand \o d.hands[1], capture |-> d.cards]

\* One player's refill: shuffle the capture pile, deal all of it, extend the
\* hand.  One outcome for each outcome of the shuffle.
Refill(hand, capture) ==
    {Extended(hand, deal_all_cards(shuffled, 1)) : shuffled \in Shuffle(capture)}

\* A refill step that draws the capture pile whenever it holds a card.
RefillStep_Eager(hand, capture) ==
    IF capture # <<>>
    THEN Refill(hand, capture)
    ELSE {[abort |-> "", hand |-> hand, capture |-> capture]}

\* The refill step of tick for one player: only an empty hand is refilled.
RefillStep(hand, capture) ==
    IF hand = <<>> THEN Refill(hand, capture)
    ELSE {[abort |-> "", hand |-> hand, capture |-> capture]}

\* self.player_N_hand.pop() on the hand a refill (r) just extended.
PopRefilled(r) ==
    [abort |-> r.abort, card |-> HandPop(r.hand).card,
     hand |-> HandPop(r.hand).rest, capture |-> r.capture]

\* A fallback draw that deals from the capture pile without looking at it.
OrElse_Unchecked(hand, capture) ==
    {PopRefilled(r) : r \in Refill(hand, capture)}

\* The closure of or_else: None on an empty capture pile, else refill and pop.
OrElse(hand, capture) ==
    IF capture = <<>>
    THEN {[abort |-> "", card |-> None, hand |-> hand, capture |-> capture]}
    ELSE {PopRefilled(r) : r \in Refill(hand, capture)}

\* A face-down draw: self.player_N_hand.pop().or_else(...)
DownDraw(hand, capture) ==
    IF hand # <<>>
    THEN {[abort |-> "", card |-> HandPop(hand).card, hand |-> HandPop(hand).rest,
           capture |-> capture]}
    ELSE OrElse(hand, capture)

\* A face-down draw that leaves player 2's card out of reward_cards.
DownPush_DropsCard(w, d1, d2) ==
    [w EXCEPT !.h1 = d1.hand, !.c1 = d1.capture,
              !.h2 = d2.hand, !.c2 = d2.capture,
              !.reward = w.reward \o d1.card,
              !.chk1 = IF d1.card # None THEN d1.card ELSE w.chk1,
              !.chk2 = IF d2.card # None THEN d2.card ELSE w.chk2,
              !.abort = IF w.abort # "" THEN w.abort
                        ELSE IF d1.abort # "" THEN d1.abort ELSE d2.abort]

\* The end of one pass of `for _ in 0..3`: the pushes and the last-seen cards.
DownPush(w, d1, d2) ==
    [w EXCEPT !.h1 = d1.hand, !.c1 = d1.capture,
              !.h2 = d2.hand, !.c2 = d2.capture,
              !.reward = (w.reward \o d1.card) \o d2.card,
              !.chk1 = IF d1.card # None THEN d1.card ELSE w.chk1,
              !.chk2 = IF d2.card # None THEN d2.card ELSE w.chk2,
              !.abort = IF w.abort # "" THEN w.abort
                        ELSE IF d1.abort # "" THEN d1.abort ELSE d2.abort]

\* One pass of `for _ in 0..3`: both face-down draws, then the pushes.
DownIter(w) ==
    {DownPush(w, d1, d2) : d1 \in DownDraw(w.h1, w.c1), d2 \in DownDraw(w.h2, w.c2)}

\* A pass of the loop from each of the outcomes W of the passes before it.
DownIters(W) == UNION {DownIter(w) : w \in W}

\* A tiebreak match that takes a pass with one tiebreak card for a tie.
TiebreakOrdering_OneSidedTies(chk1, chk2) ==
    IF chk1 # None /\ chk2 # None THEN SuitlessCmp(chk1[1], chk2[1])
    ELSE IF chk1 # None \/ chk2 # None THEN "Equal"
    ELSE "unreachable"

\* A tiebreak match whose one-sided arms are exchanged.
TiebreakOrdering_Exchanged(chk1, chk2) ==
    IF chk1 # None /\ chk2 # None THEN SuitlessCmp(chk1[1], chk2[1])
    ELSE IF chk1 # None THEN "Less"
    ELSE IF chk2 # None THEN "Greater"
    ELSE "unreachable"

\* The match on the two tiebreak cards.
TiebreakOrdering(chk1, chk2) ==
    IF chk1 # None /\ chk2 # None THEN SuitlessCmp(chk1[1], chk2[1])
    ELSE IF chk1 # None THEN "Greater"
    ELSE IF chk2 # None THEN "Less"
    ELSE "unreachable"

\* A choice of the tiebreak card that prefers the face-down card.
FinalOr_KeepsDown(final, check) == IF check # None THEN check ELSE final

\* player_N_check = player_N_final.or(player_N_check)
FinalOr(final, check) == IF final # None THEN final ELSE check

\* The end of a tiebreak round: the two final pops (f1, f2), their pushes,
\* the tiebreak cards and the comparison.
Finals(w, f1, f2) ==
    [w EXCEPT !.h1 = f1.rest, !.h2 = f2.rest,
              !.reward = (w.reward \o f1.card) \o f2.card,
              !.final1 = f1.card, !.final2 = f2.card,
              !.chk1 = FinalOr(f1.card, w.chk1),
              !.chk2 = FinalOr(f2.card, w.chk2),
              !.ordering = TiebreakOrdering(FinalOr(f1.card, w.chk1),
                                            FinalOr(f2.card, w.chk2)),
              !.rounds = w.rounds + 1,
              !.abort = IF w.abort # "" THEN w.abort
                        ELSE IF TiebreakOrdering(FinalOr(f1.card, w.chk1),
                                                 FinalOr(f2.card, w.chk2))
                                = "unreachable"
                        THEN "unreachable" ELSE ""]

\* Final pops that take the capture pile into an empty hand first.
FinalPops_Refilling(w) ==
    Finals([w EXCEPT !.c1 = IF w.h1 = <<>> THEN <<>> ELSE w.c1,
                     !.c2 = IF w.h2 = <<>> THEN <<>> ELSE w.c2],
           HandPop(IF w.h1 = <<>> THEN w.c1 ELSE w.h1),
           HandPop(IF w.h2 = <<>> THEN w.c2 ELSE w.h2))

\* The final pops of a round on the record the three iterations left.
FinalPops(w) == Finals(w, HandPop(w.h1), HandPop(w.h2))

\* One pass of the tiebreak loop: last-seen cards reset, three face-down
\* iterations, the two final pops, the comparison.
TiebreakRound(w) ==
    {FinalPops(w3) :
        w3 \in DownIters(DownIters(DownIter(
                   [w EXCEPT !.chk1 = None, !.chk2 = None,
                             !.round_start = Len(w.reward)])))}

\* while ordering == Ordering::Equal { ... }
RECURSIVE TiebreakLoop(_)
TiebreakLoop(w) ==
    IF w.ordering # "Equal" \/ w.abort # "" THEN {w}
    ELSE UNION {TiebreakLoop(r) : r \in TiebreakRound(w)}

\* An award that gives player 1's tied card back to player 1.
Award_ReturnsPlay(w) ==
    IF w.abort # "" THEN w
    ELSE IF w.ordering = "Less"
         THEN [w EXCEPT !.c1 = w.c1 \o SubSeq(w.reward, 1, 1),
                        !.c2 = w.c2 \o SubSeq(w.reward, 2, Len(w.reward))]
         ELSE [w EXCEPT !.c1 = w.c1 \o w.reward]

\* The award after the loop: Less gives the pot to player 2, anything else
\* to player 1; an aborted tick awards nothing.
Award(w) ==
    IF w.abort # "" THEN w
    ELSE IF w.ordering = "Less"
    THEN [w EXCEPT !.c2 = w.c2 \o w.reward]
    ELSE [w EXCEPT !.c1 = w.c1 \o w.reward]

\* A comparison after which each player takes the own card back when the
\* ranks differ.
Resolve_NoCapture(w) ==
    IF SuitlessCmp(w.play1[1], w.play2[1]) = "Equal"
    THEN {Award(e) : e \in TiebreakLoop([w EXCEPT !.reward = w.play1 \o w.play2,
                                                  !.ordering = "Equal"])}
    ELSE {[w EXCEPT !.c1 = w.c1 \o w.play1, !.c2 = w.c2 \o w.play2,
                    !.ordering = SuitlessCmp(w.play1[1], w.play2[1])]}

\* match player_1_play.cmp(&player_2_play) { Equal, Less, Greater }
Resolve(w) ==
    IF SuitlessCmp(w.play1[1], w.play2[1]) = "Equal"
    THEN {Award(e) : e \in TiebreakLoop([w EXCEPT !.reward = w.play1 \o w.play2,
                                                  !.ordering = "Equal"])}
    ELSE IF SuitlessCmp(w.play1[1], w.play2[1]) = "Less"
    THEN {[w EXCEPT !.c2 = (w.c2 \o w.play1) \o w.play2, !.ordering = "Less"]}
    ELSE {[w EXCEPT !.c1 = (w.c1 \o w.play1) \o w.play2, !.ordering = "Greater"]}

\* The two plays: self.player_N_hand.pop().unwrap() for both players (p1, p2).
Play(w, p1, p2) ==
    IF p1.card = None \/ p2.card = None
    THEN {[w EXCEPT !.abort = "unwrap_none"]}
    ELSE Resolve([w EXCEPT !.h1 = p1.rest, !.h2 = p2.rest,
                           !.play1 = p1.card, !.play2 = p2.card])

\* The tick after the refill step left r1 and r2 for the two players.
AfterRefill(r1, r2) ==
    IF r1.abort # "" \/ r2.abort # ""
    THEN {[Work(Game(r1.hand, r2.hand, r1.capture, r2.capture))
              EXCEPT !.abort = "unwrap_err"]}
    ELSE Play(Work(Game(r1.hand, r2.hand, r1.capture, r2.capture)),
              HandPop(r1.hand), HandPop(r2.hand))

\* impl Default for WarGame, after the shuffle: deal the deck to two hands,
\* start with empty capture piles.
Dealt(deck) ==
      \E d \in {deal_all_cards_to_hands(deck, <<<<>>, <<>>>>)} :
            /\ d.res = "Ok"
            /\ player_1_hand = d.hands[1]
            /\ player_2_hand = d.hands[2]
            /\ player_1_capture = <<>>
            /\ player_2_capture = <<>>
            /\ result = "start"
            /\ refilled = Game(<<>>, <<>>, <<>>, <<>>)
            /\ player_1_play = None
            /\ player_2_play = None
            /\ reward_cards = <<>>
            /\ player_1_check = None
            /\ player_2_check = None
            /\ ordering = ""
            /\ rounds = 0
            /\ ticks = 0
            /\ player_1_final = None
            /\ player_2_final = None
            /\ round_start = 0
            /\ call = NoCall

\* impl Default for WarGame: shuffle one set of `cards`, then deal.
Default(cards) == \E deck \in Shuffle(DeckNew(cards, 1)) : Dealt(deck)

Init == Default(all_cards)

InitWide == Default(wide_cards)

InitCourt == Default(court_cards)

\* The game held by the driver.
game_state == Game(player_1_hand, player_2_hand, player_1_capture, player_2_capture)

\* One call of WarGame::tick by the driver loop; an aborted process calls no more.
Tick ==
    /\ result \notin Aborts
    /\ IF Finished(game_state)
       THEN /\ result' = "Ok(true)"
            /\ UNCHANGED piles
            /\ refilled' = Game(<<>>, <<>>, <<>>, <<>>)
            /\ player_1_play' = None
            /\ player_2_play' = None
            /\ reward_cards' = <<>>
            /\ player_1_check' = None
            /\ player_2_check' = None
            /\ ordering' = ""
            /\ rounds' = 0
            /\ player_1_final' = None
            /\ player_2_final' = None
            /\ round_start' = 0
       ELSE \E r1 \in RefillStep(player_1_hand, player_1_capture),
               r2 \in RefillStep(player_2_hand, player_2_capture) :
              /\ refilled' = Game(r1.hand, r2.hand, r1.capture, r2.capture)
              /\ \E t \in AfterRefill(r1, r2) :
                  /\ player_1_hand' = t.h1
                  /\ player_2_hand' = t.h2
                  /\ player_1_capture' = t.c1
                  /\ player_2_capture' = t.c2
                  /\ result' = IF t.abort # "" THEN t.abort ELSE "Ok(false)"
                  /\ player_1_play' = t.play1
                  /\ player_2_play' = t.play2
                  /\ reward_cards' = t.reward
                  /\ player_1_check' = t.chk1
                  /\ player_2_check' = t.chk2
                  /\ ordering' = t.ordering
                  /\ rounds' = t.rounds
                  /\ player_1_final' = t.final1
                  /\ player_2_final' = t.final2
                  /\ round_start' = t.round_start

\* What the driver prints once tick has returned Ok(true).
Message(g) == IF player_1_won(g) THEN "Player 1 Won!" ELSE "Player 2 Won!"

\* The driver loop of bin/war.rs: tick after tick.
Next == Tick /\ UNCHANGED <<ticks, call>>

\* The same loop, stopped after MaxTicks ticks.
NextWide == ticks < MaxTicks /\ Tick /\ ticks' = ticks + 1 /\ UNCHANGED call

Spec == Init /\ [][Next]_vars

\* The driver calls tick again whenever tick has returned.
FairSpec == Spec /\ WF_vars(Next)

SpecWide == InitWide /\ [][NextWide]_vars

\* The shuffles of a deck that move its first LateShuffled cards only: the
\* cards the two players come to first.
LateDecks(cards) ==
    {p \o SubSeq(cards, LateShuffled + 1, Len(cards)) :
        p \in Orders(cards, LateShuffled)}

\* The games Default can start from late_cards after one of those shuffles.
InitLate == \E deck \in LateDecks(DeckNew(late_cards, 1)) : Dealt(deck)

\* The driver loop stopped after LateTicks ticks.
NextLate == ticks < LateTicks /\ Tick /\ ticks' = ticks + 1 /\ UNCHANGED call

SpecLate == InitLate /\ [][NextLate]_vars

\* The game of Spec with the cards of court_cards.
SpecCourt == InitCourt /\ [][Next]_vars

---------------------------------------------------------------------------
(* Calls of the dealing functions of deck.rs on their own *)

\* No game: the variables of the game where only `call` matters.
NoGame ==
    /\ player_1_hand = <<>>
    /\ player_2_hand = <<>>
    /\ player_1_capture = <<>>
    /\ player_2_capture = <<>>
    /\ result = "start"
    /\ refilled = Game(<<>>, <<>>, <<>>, <<>>)
    /\ player_1_play = None
    /\ player_2_play = None
    /\ reward_cards = <<>>
    /\ player_1_check = None
    /\ player_2_check = None
    /\ ordering = ""
    /\ rounds = 0
    /\ ticks = 0
    /\ player_1_final = None
    /\ player_2_final = None
    /\ round_start = 0

game_vars == <<piles, result, locals, ticks>>

\* The decks dealt from: distinct cards, bottom first.
Decks == {SubSeq(wide_cards, 1, n) : n \in 0..Len(wide_cards)}

\* A card that is in none of the decks.
spare_card == Card("Spade", "King")

\* The vectors of hands supplied to the *_to_hands functions: up to MaxHands
\* hands, all empty or all holding one card already.
SuppliedHands ==
    {[i \in 1..m |-> pre] : m \in 0..MaxHands, pre \in {<<>>, <<spare_card>>}}

\* A deck and a vector of hands, before any call.
InitDeck ==
    /\ NoGame
    /\ \E d \in Decks, hs \in SuppliedHands :
          call = [NoCall EXCEPT !.op = "new", !.deck0 = d, !.hands0 = hs,
                                !.deck = d, !.hands = hs]

\* `call` after the call of `op` with the given arguments: d is the outcome
\* of the deal (its result and what is left of the deck), ret the buckets
\* returned and hands the supplied hands after the call.
Called(op, hand_count, cards_per_hand, d, ret, hands) ==
    [call EXCEPT !.op = op, !.hand_count = hand_count,
                 !.cards_per_hand = cards_per_hand, !.res = d.res,
                 !.ret = ret, !.deck = d.cards, !.hands = hands]

\* deck.deal_cards(hand_count, cards_per_hand)
DealCards ==
    /\ call.op = "new"
    /\ \E hand_count \in Usize, cards_per_hand \in Usize :
          \E d \in Built(deal_cards(call.deck, hand_count, cards_per_hand),
                         call.deck, hand_count, cards_per_hand) :
             call' = Called("deal_cards", hand_count, cards_per_hand, d,
                            d.hands, call.hands)
    /\ UNCHANGED game_vars

\* deck.deal_cards_to_hands(&mut hands, cards_per_hand)
DealCardsToHands ==
    /\ call.op = "new"
    /\ \E cards_per_hand \in Usize :
          \E o \in Built(deal_cards(call.deck, Len(call.hands), cards_per_hand),
                         call.deck, Len(call.hands), cards_per_hand) :
             call' = Called("deal_cards_to_hands", Len(call.hands),
                            cards_per_hand, ExtendHands(o, call.hands), <<>>,
                            ExtendHands(o, call.hands).hands)
    /\ UNCHANGED game_vars

\* deck.deal_all_cards(hand_count)
DealAllCards ==
    /\ call.op = "new"
    /\ \E hand_count \in Usize :
          \E d \in {deal_all_cards(call.deck, hand_count)} :
             call' = Called("deal_all_cards", hand_count, 0, d, d.hands,
                            call.hands)
    /\ UNCHANGED game_vars

\* deck.deal_all_cards_to_hands(&mut hands)
DealAllCardsToHands ==
    /\ call.op = "new"
    /\ \E d \in {deal_all_cards_to_hands(call.deck, call.hands)} :
          call' = Called("deal_all_cards_to_hands", Len(call.hands), 0, d,
                         <<>>, d.hands)
    /\ UNCHANGED game_vars

NextDeck ==
    \/ DealCards
    \/ DealCardsToHands
    \/ DealAllCards
    \/ DealAllCardsToHands

SpecDeck == InitDeck /\ [][NextDeck]_vars

---------------------------------------------------------------------------
(* Comparisons of Suitless cards on their own *)

\* Two cards to compare.
InitCard ==
    /\ NoGame
    /\ \E a \in Range(full_cards), b \in Range(full_cards) :
          call = [NoCall EXCEPT !.op = "new", !.a = Some(a), !.b = Some(b)]

\* Suitless(a).cmp(&Suitless(b)) and Suitless(a) == Suitless(b)
Compare ==
    /\ call.op = "new"
    /\ call' = [call EXCEPT !.op = "cmp",
                            !.cmp = SuitlessCmp(call.a[1], call.b[1]),
                            !.eq = SuitlessEq(call.a[1], call.b[1])]
    /\ UNCHANGED game_vars

SpecCard == InitCard /\ [][Compare]_vars

---------------------------------------------------------------------------
(* Vocabulary of the properties, in terms of the variables alone *)

AllPiles ==
    ((player_1_hand \o player_1_capture) \o player_2_hand) \o player_2_capture

Count1 == Len(player_1_hand) + Len(player_1_capture)
Count2 == Len(player_2_hand) + Len(player_2_capture)

Lost1 == player_1_hand = <<>> /\ player_1_capture = <<>>
Lost2 == player_2_hand = <<>> /\ player_2_capture = <<>>

NoDuplicate(s) == Cardinality(Range(s)) = Len(s)

\* s and t hold the same cards, each once, in any order.
SameCards(s, t) == Len(s) = Len(t) /\ Range(s) = Range(t) /\ NoDuplicate(s)

\* The last tick went to war and came to an award.
WarDone == result = "Ok(false)" /\ rounds > 0

---------------------------------------------------------------------------
(* Properties *)

\* C1: after any sequence of completed ticks the two hands and the two
\* capture piles together hold every card of the one set exactly once, so
\* their lengths add up to the size of the set.
C1_CardConservation ==
    result \notin Aborts =>
        /\ Len(AllPiles) = Len(all_cards)
        /\ Range(AllPiles) = Range(all_cards)
        /\ Count1 + Count2 = NumSuits * NumRanks

\* C1 witness: a war was awarded after a capture pile was drawn into a hand.
C1_Witness ==
    /\ WarDone
    /\ Len(reward_cards) > 2
    /\ refilled.c1 # <<>>
    /\ player_1_capture = reward_cards

\* C2: the (None, None) arm of the tiebreak match is never reached.
C2_NeverUnreachable == result # "unreachable"

\* C3: once a player has lost, a tick returns Ok(true) and leaves the four
\* piles as they are, so the game stays finished with the same winner.
C3_TerminalAbsorbing ==
    [][(Lost1 \/ Lost2) =>
          /\ result' = "Ok(true)"
          /\ UNCHANGED piles
          /\ Lost1' = Lost1
          /\ Lost2' = Lost2]_vars

\* C3 witness: a second tick in a finished game.
C3_Witness == result = "Ok(true)" /\ Lost2 /\ Count1 = Len(all_cards)

\* C4: a tick returns Ok(true) exactly when a player has lost at its start,
\* and Ok(false) from every other state.
C4_TickResult ==
    [][result' = IF Lost1 \/ Lost2 THEN "Ok(true)" ELSE "Ok(false)"]_vars

\* Leaving aborted ticks aside, the result is Ok(true) exactly when a player
\* has lost at the start of the tick.
C4_ResultUnlessAborted ==
    [][result' \in Aborts
       \/ result' = IF Lost1 \/ Lost2 THEN "Ok(true)" ELSE "Ok(false)"]_vars

\* The top card of a pile.
Top(cards) == cards[Len(cards)]

\* The pile below its top card.
BelowTop(cards) == SubSeq(cards, 1, Len(cards) - 1)

\* The last tick compared two played cards of different rank.
TrickDone ==
    /\ result = "Ok(false)"
    /\ player_1_play # None
    /\ player_2_play # None
    /\ player_1_play[1].rank # player_2_play[1].rank

\* Player 1 played the higher rank (by the order of the Rank enum).
Higher1 == RankOrd[player_1_play[1].rank] > RankOrd[player_2_play[1].rank]

\* C5: when the two played cards differ in rank, both are appended (player
\* 1's first) to the capture pile of the player of the higher rank and to no
\* other pile: the hands lose their top card, the other capture pile stays as
\* the refill step left it, the winner's count grows by one and the other's
\* shrinks by one.
C5_TrickToHigherRank ==
    [][TrickDone' =>
          /\ player_1_play' = <<Top(refilled'.h1)>>
          /\ player_2_play' = <<Top(refilled'.h2)>>
          /\ player_1_hand' = BelowTop(refilled'.h1)
          /\ player_2_hand' = BelowTop(refilled'.h2)
          /\ IF Higher1'
             THEN /\ player_1_capture' =
                        (refilled'.c1 \o player_1_play') \o player_2_play'
                  /\ player_2_capture' = refilled'.c2
                  /\ Count1' = Count1 + 1
                  /\ Count2' = Count2 - 1
             ELSE /\ player_2_capture' =
                        (refilled'.c2 \o player_1_play') \o player_2_play'
                  /\ player_1_capture' = refilled'.c1
                  /\ Count2' = Count2 + 1
                  /\ Count1' = Count1 - 1]_vars

\* C5 witness: an Ace played against a lower rank took the trick.
C5_Witness ==
    /\ TrickDone
    /\ player_1_play[1].rank = "Ace"
    /\ Len(player_1_capture) >= 4
    /\ player_2_capture # <<>>

\* The capture pile the last war's pot went to, and the other one.
WinnerCapture == IF ordering = "Less" THEN player_2_capture ELSE player_1_capture
LoserCapture == IF ordering = "Less" THEN player_1_capture ELSE player_2_capture

\* The winner's capture pile below the pot.
BelowPot == SubSeq(WinnerCapture, 1, Len(WinnerCapture) - Len(reward_cards))

\* Every card that is not in the pot after a war.
OutsidePot == ((player_1_hand \o player_2_hand) \o LoserCapture) \o BelowPot

\* The four piles as the refill step of the last tick left them.
RefilledPiles == ((refilled.h1 \o refilled.h2) \o refilled.c1) \o refilled.c2

\* C6: the pot of a war starts with the two tied played cards and holds, once
\* each, exactly the cards that left the players' piles during the tick,
\* whatever the number of rounds; it is the end of the winner's capture pile
\* and no card of it is anywhere else.
C6_PotToWinner ==
    WarDone =>
        /\ Len(reward_cards) >= 2
        /\ SubSeq(reward_cards, 1, 2) = player_1_play \o player_2_play
        /\ Len(WinnerCapture) >= Len(reward_cards)
        /\ SubSeq(WinnerCapture, Len(WinnerCapture) - Len(reward_cards) + 1,
                  Len(WinnerCapture)) = reward_cards
        /\ NoDuplicate(reward_cards)
        /\ Range(reward_cards) \cap Range(OutsidePot) = {}
        /\ Range(reward_cards) \cup Range(OutsidePot) = Range(RefilledPiles)

\* C6 witness: a war of two rounds, the first tied, was awarded to player 2,
\* who keeps cards outside the pot.
C6_Witness ==
    /\ WarDone
    /\ rounds >= 2
    /\ ordering = "Less"
    /\ Len(player_2_capture) = Len(reward_cards)
    /\ Len(reward_cards) >= 7

\* Player N holds no card outside the pot when the last war is awarded.
Exhausted1 ==
    /\ player_1_hand = <<>>
    /\ IF ordering = "Less" THEN player_1_capture = <<>> ELSE BelowPot = <<>>
Exhausted2 ==
    /\ player_2_hand = <<>>
    /\ IF ordering = "Less" THEN BelowPot = <<>> ELSE player_2_capture = <<>>

\* C7 as stated: when a war is awarded with one player's hand and capture pile
\* empty and the other still holding cards, the pot goes to the holder.
C7_HolderWins ==
    WarDone =>
        /\ (Exhausted1 /\ ~Exhausted2 => ordering = "Less")
        /\ (Exhausted2 /\ ~Exhausted1 => ordering = "Greater")

\* C7 amended: a player who contributes no card to the deciding round (hand
\* and capture pile are empty when it starts) loses the pot to the other
\* player and is left without any card.
C7_ContributorWins ==
    WarDone =>
        /\ (player_1_check = None =>
               ordering = "Less" /\ player_2_check # None /\ Lost1)
        /\ (player_2_check = None =>
               ordering = "Greater" /\ player_1_check # None /\ Lost2)

\* C7 witness: player 1 ran out of cards in a tied round and had nothing to
\* put into the next one, which player 2 won.
C7_Witness ==
    /\ WarDone
    /\ rounds >= 2
    /\ player_1_check = None
    /\ player_2_check # None
    /\ WinnerCapture = player_2_capture

\* C8: no draw of a tick fails: no unwrap of a pop or of a deal aborts (so no
\* deal_all_cards(1) meets an empty capture pile), and both hands hold a card
\* after the refill step of every tick that is not terminal.
C8_NoDrawFails ==
    /\ result \notin {"unwrap_none", "unwrap_err"}
    /\ (result \in {"Ok(false)", "unreachable"} =>
           refilled.h1 # <<>> /\ refilled.h2 # <<>>)

\* C8 witness: player 2 ran out of hand cards during a war, drew the whole
\* capture pile and went on to lose the war.
C8_Witness ==
    /\ WarDone
    /\ ordering = "Greater"
    /\ refilled.c2 # <<>>
    /\ player_2_capture = <<>>
    /\ player_2_check # None

\* C9: the refill step of a tick that is not terminal moves all of a player's
\* capture pile into the hand when the hand is empty, leaves hand and capture
\* pile alone otherwise, and the tick does not report the game finished.
C9_RefillStep ==
    [][~(Lost1 \/ Lost2) =>
          /\ result' # "Ok(true)"
          /\ IF player_1_hand = <<>>
             THEN SameCards(refilled'.h1, player_1_capture) /\ refilled'.c1 = <<>>
             ELSE refilled'.h1 = player_1_hand /\ refilled'.c1 = player_1_capture
          /\ IF player_2_hand = <<>>
             THEN SameCards(refilled'.h2, player_2_capture) /\ refilled'.c2 = <<>>
             ELSE refilled'.h2 = player_2_hand /\ refilled'.c2 = player_2_capture]_vars

\* C9 witness: both hands ran out in the same tick; player 1's hand was
\* refilled with more cards than were dealt to it, player 2's with the rest,
\* and the tick went on to play.
C9_Witness ==
    /\ result = "Ok(false)"
    /\ 2 * Len(refilled.h1) > Len(all_cards)
    /\ refilled.c1 = <<>>
    /\ refilled.h2 # <<>>
    /\ refilled.c2 = <<>>
    /\ player_1_play = <<Top(refilled.h1)>>

\* C10 as stated, with the aborted runs set aside: every run of ticks comes
\* to a finished game (or to an abort).
C10_EventuallyFinished == <>(Lost1 \/ Lost2 \/ result \in Aborts)

\* C10 amended: a tick that is not terminal and completes moves at least one
\* card from one player to the other and keeps the total, so the game goes
\* on exactly as long as the split keeps changing without reaching zero.
C10_EveryTickMovesCards ==
    [][result' = "Ok(false)" =>
          /\ Count1' # Count1
          /\ Count1' + Count2' = Count1 + Count2
          /\ ~(Lost1 \/ Lost2)]_vars

\* C10 witness: after both players took tricks the split is even again.
C10_Witness ==
    /\ result = "Ok(false)"
    /\ Count1 = Count2
    /\ player_1_capture # <<>>
    /\ player_2_capture # <<>>
    /\ rounds = 0

\* The last call asked a deck for more cards than it held.
Short ==
    /\ call.op \in {"deal_cards", "deal_cards_to_hands"}
    /\ Len(call.deck0) < call.hand_count * call.cards_per_hand

\* C11: deal_cards and deal_cards_to_hands on a deck of fewer than
\* hand_count * cards_per_hand cards return NotEnoughCards and leave the deck
\* and every supplied hand as they were.
C11_DealAtomic ==
    Short =>
        /\ call.res = "NotEnoughCards"
        /\ call.deck = call.deck0
        /\ call.hands = call.hands0

\* The same for the requests whose size fits a usize; when a call does not
\* return, the deck and the hands are still as they were.
C11_DealAtomicWithinUsize ==
    Short =>
        /\ call.hand_count * call.cards_per_hand < UsizeLimit
               => call.res = "NotEnoughCards"
        /\ call.res \in {"NotEnoughCards", "panic"}
        /\ call.deck = call.deck0
        /\ call.hands = call.hands0

\* C12: deal_cards(h, k) on a deck of n >= h * k cards returns h buckets of
\* k cards, bucket i (from 0) holding in order the cards at the deck
\* positions n-1-i, n-1-i-h, n-1-i-2h, ... (from 0), and the deck keeps its
\* first n - h * k cards in their order.
C12_RoundRobin ==
    (/\ call.op = "deal_cards"
     /\ Len(call.deck0) >= call.hand_count * call.cards_per_hand) =>
        /\ call.res = "Ok"
        /\ Len(call.ret) = call.hand_count
        /\ \A i \in 1..call.hand_count :
              /\ Len(call.ret[i]) = call.cards_per_hand
              /\ \A j \in 1..call.cards_per_hand :
                    call.ret[i][j] =
                        call.deck0[Len(call.deck0) - (i - 1)
                                   - (j - 1) * call.hand_count]
        /\ call.deck = SubSeq(call.deck0, 1,
                              Len(call.deck0)
                                  - call.hand_count * call.cards_per_hand)
        /\ call.hands = call.hands0

\* C12 witness: deal_cards(2, 3) on the deck [c0..c5] returned
\* [c5, c3, c1] and [c4, c2, c0].
C12_Witness ==
    /\ call.op = "deal_cards"
    /\ call.hand_count = 2
    /\ call.cards_per_hand = 3
    /\ Len(call.deck0) = 6
    /\ call.ret = << <<call.deck0[6], call.deck0[4], call.deck0[2]>>,
                     <<call.deck0[5], call.deck0[3], call.deck0[1]>> >>
    /\ call.deck = <<>>

\* The recipients of the last call after it: the buckets returned, or what
\* the supplied hands gained.
Gained ==
    IF call.op = "deal_all_cards" THEN call.ret
    ELSE [i \in 1..Len(call.hands) |->
             SubSeq(call.hands[i], Len(call.hands0[i]) + 1, Len(call.hands[i]))]

\* C13: deal_all_cards(h) and deal_all_cards_to_hands (h supplied hands) with
\* h >= 1 on a deck of n cards return NotEnoughCards, deck and hands
\* unchanged, exactly when n < h; otherwise every recipient gains n div h
\* cards, the supplied hands keep what they held, and n mod h cards stay in
\* the deck.
C13_DealAllSplit ==
    (/\ call.op \in {"deal_all_cards", "deal_all_cards_to_hands"}
     /\ call.hand_count >= 1) =>
        IF Len(call.deck0) < call.hand_count
        THEN /\ call.res = "NotEnoughCards"
             /\ call.deck = call.deck0
             /\ call.hands = call.hands0
        ELSE /\ call.res = "Ok"
             /\ call.deck = SubSeq(call.deck0, 1,
                                   Len(call.deck0) % call.hand_count)
             /\ Len(call.hands) = Len(call.hands0)
             /\ \A i \in 1..Len(call.hands) :
                   SubSeq(call.hands[i], 1, Len(call.hands0[i])) = call.hands0[i]
             /\ Len(Gained) = call.hand_count
             /\ \A i \in 1..call.hand_count :
                   Len(Gained[i]) = Len(call.deck0) \div call.hand_count

\* C13 witness: three supplied hands that held a card each got two of eight
\* cards each, and two cards stayed in the deck.
C13_Witness ==
    /\ call.op = "deal_all_cards_to_hands"
    /\ call.res = "Ok"
    /\ Len(call.deck0) = 8
    /\ Len(call.hands0) = 3
    /\ call.hands0[1] # <<>>
    /\ Len(call.hands[3]) = 3
    /\ Len(call.deck) = 2

\* C14: Suitless(a) == Suitless(b) exactly when a and b have the same rank,
\* cmp is the comparison of the two ranks whatever the suits, and cmp is
\* Equal exactly when == holds.
C14_SuitlessIgnoresSuit ==
    call.op = "cmp" =>
        /\ call.eq <=> (call.a[1].rank = call.b[1].rank)
        /\ call.cmp = OrdCmp(RankOrd[call.a[1].rank], RankOrd[call.b[1].rank])
        /\ (call.cmp = "Equal") <=> call.eq

\* C14 witness: two cards of the same rank and different suits compared equal.
C14_Witness ==
    /\ call.op = "cmp"
    /\ call.a[1].suit # call.b[1].suit
    /\ call.a[1].rank = call.b[1].rank
    /\ call.eq
    /\ call.cmp = "Equal"

\* The last tick compared two played cards of different rank and gave both
\* to player 1's (Took1) or to player 2's (Took2) capture pile.
Took1 ==
    /\ TrickDone
    /\ ordering = "Greater"
    /\ Len(player_1_capture) >= 2
    /\ SubSeq(player_1_capture, Len(player_1_capture) - 1,
              Len(player_1_capture)) = player_1_play \o player_2_play
Took2 ==
    /\ TrickDone
    /\ ordering = "Less"
    /\ Len(player_2_capture) >= 2
    /\ SubSeq(player_2_capture, Len(player_2_capture) - 1,
              Len(player_2_capture)) = player_1_play \o player_2_play

C16_DefaultDeal ==
    result = "start" =>
        /\ 2 * Len(player_1_hand) = Len(all_cards)
        /\ 2 * Len(player_2_hand) = Len(all_cards)
        /\ player_1_capture = <<>>
        /\ player_2_capture = <<>>
        /\ Range(player_1_hand) \cap Range(player_2_hand) = {}
        /\ Range(player_1_hand) \cup Range(player_2_hand) = Range(all_cards)
        /\ NoDuplicate(player_1_hand \o player_2_hand)

\* C16 witness: a shuffle after which player 1 is dealt every Spade.
C16_Witness ==
    /\ result = "start"
    /\ player_1_hand # <<>>
    /\ \A i \in 1..Len(player_1_hand) : player_1_hand[i].suit = "Spade"
    /\ player_1_hand[1].rank = "Two"

\* When tick has reported the game finished, exactly one player has lost and
\* the driver's message names the other one.
NamesWinner ==
    result = "Ok(true)" =>
        /\ Lost1 \/ Lost2
        /\ (Message(game_state) = "Player 1 Won!") <=> Lost2
        /\ (Message(game_state) = "Player 2 Won!") <=> Lost1

\* C17: in every reachable state at most one of player_1_won() and
\* player_2_won() is true, and when tick reports the game finished the
\* driver's message names the player whose opponent holds no card.
C17_OneWinner == ~(Lost1 /\ Lost2) /\ NamesWinner

\* The same in the states no tick has aborted in.
C17_OneWinnerUnlessAborted ==
    result \notin Aborts => ~(Lost1 /\ Lost2) /\ NamesWinner

\* The card was player 1's (player 2's) when the last tick began to play.
Owned1(c) == c \in Range(refilled.h1) \cup Range(refilled.c1)
Owned2(c) == c \in Range(refilled.h2) \cup Range(refilled.c2)

\* The cards pushed onto reward_cards in the last pass of the tiebreak loop,
\* and those of them that came from each player, in the order of the pushes.
LastRound == SubSeq(reward_cards, round_start + 1, Len(reward_cards))
LastRound1 == SelectSeq(LastRound, Owned1)
LastRound2 == SelectSeq(LastRound, Owned2)

\* The tiebreak card C18 describes: the up card if there is one, otherwise
\* the last card of the player's pushes of the pass (face-down ones then),
\* otherwise none.
UpOrLastDown(final, pushed) ==
    IF final # None THEN final
    ELSE IF pushed # <<>> THEN <<pushed[Len(pushed)]>>
    ELSE None

\* The last tick went through the tiebreak loop.
WarEnded == rounds > 0 /\ result \in {"Ok(false)", "unreachable"}

\* C18: in the last pass of the tiebreak loop each player's tiebreak card
\* is the up card if the final pop gave one, otherwise the last face-down
\* card the player put down in that pass, and none if the player put down
\* nothing in that pass (whatever was put down in earlier passes).  The loop
\* ends on two tiebreak cards only when their ranks differ, the higher then
\* wins; with one tiebreak card, its player wins.
C18_TiebreakCard ==
    WarEnded =>
        /\ Len(LastRound1) <= 4
        /\ Len(LastRound2) <= 4
        /\ player_1_final # None =>
               player_1_final = <<LastRound1[Len(LastRound1)]>>
        /\ player_2_final # None =>
               player_2_final = <<LastRound2[Len(LastRound2)]>>
        /\ player_1_check = UpOrLastDown(player_1_final, LastRound1)
        /\ player_2_check = UpOrLastDown(player_2_final, LastRound2)
        /\ (player_1_check # None /\ player_2_check # None) =>
               /\ player_1_check[1].rank # player_2_check[1].rank
               /\ ordering = IF RankOrd[player_1_check[1].rank]
                                    > RankOrd[player_2_check[1].rank]
                             THEN "Greater" ELSE "Less"
        /\ (player_1_check # None /\ player_2_check = None) =>
               ordering = "Greater"
        /\ (player_1_check = None /\ player_2_check # None) =>
               ordering = "Less"

\* C18 witness: in the second pass player 1, who had put cards down in the
\* first, had no tiebreak card, and player 2's was a face-down card.
C18_Witness ==
    /\ WarDone
    /\ rounds = 2
    /\ \E i \in 3..round_start : Owned1(reward_cards[i])
    /\ player_1_check = None
    /\ player_2_final = None
    /\ player_2_check # None

Min(a, b) == IF a < b THEN a ELSE b

\* What C19 says of one player in a tick decided in the first pass of the
\* loop.  `hand` and `capture` are the player's piles after the refill at
\* the top of the tick (the played card still on the hand), `pushed` the
\* player's cards of the pass, `final` and `check` the final pop and the
\* tiebreak card, `hand_after` and `capture_after` the piles tick leaves.
\* With three or more cards left after the play the capture pile is never
\* drawn on: the pass takes min(4, cards left) cards and the capture pile
\* is still there, in its order, below whatever was awarded.  With fewer,
\* a face-down draw refills and the pass takes min(4, cards left +
\* capture).  There is an up card exactly when the pass took four cards.
\* With exactly three cards left and a capture pile, there is no up card,
\* the tiebreak card is the third face-down card and the hand ends empty.
FinalNeverRefills(hand, capture, pushed, final, check, hand_after, capture_after) ==
    /\ Len(pushed) = IF Len(hand) - 1 >= 3
                     THEN Min(4, Len(hand) - 1)
                     ELSE Min(4, (Len(hand) - 1) + Len(capture))
    /\ final # None <=> Len(pushed) = 4
    /\ Len(hand) - 1 >= 3 =>
          /\ Len(capture_after) >= Len(capture)
          /\ SubSeq(capture_after, 1, Len(capture)) = capture
    /\ (Len(hand) - 1 = 3 /\ capture # <<>>) =>
          /\ final = None
          /\ pushed = <<hand[3], hand[2], hand[1]>>
          /\ check = <<hand[1]>>
          /\ hand_after = <<>>

\* C19: in an escalation round only the three face-down draws refill an
\* empty hand from the capture pile, the final pop never does: a player
\* whose hand is empty after the three face-down iterations contributes no
\* up card even with a capture pile, which the final pop leaves as it was,
\* and is compared on the last face-down card.
C19_FinalNeverRefills ==
    (WarDone /\ rounds = 1) =>
        /\ FinalNeverRefills(refilled.h1, refilled.c1, LastRound1,
                             player_1_final, player_1_check,
                             player_1_hand, player_1_capture)
        /\ FinalNeverRefills(refilled.h2, refilled.c2, LastRound2,
                             player_2_final, player_2_check,
                             player_2_hand, player_2_capture)

\* C19 witness: player 2 went into the final pop with an empty hand and a
\* capture pile, lost the round on the third face-down card, and still has
\* that capture pile.
C19_Witness ==
    /\ WarDone
    /\ rounds = 1
    /\ Len(refilled.h2) = 4
    /\ refilled.c2 # <<>>
    /\ player_2_final = None
    /\ player_2_check = <<refilled.h2[1]>>
    /\ ordering = "Greater"
    /\ player_2_hand = <<>>
    /\ player_2_capture = refilled.c2

\* The last tick's tiebreak loop ended on a pass in which only player 1
\* (only player 2) had a tiebreak card.
OnlyPlayer1Contributed == rounds > 0 /\ player_1_check # None /\ player_2_check = None
OnlyPlayer2Contributed == rounds > 0 /\ player_1_check = None /\ player_2_check # None

\* C20: when the tiebreak loop ends on a pass in which exactly one player
\* put a card down, that tick has returned Ok(false), the other player's
\* hand and capture pile are empty and the contributor holds every card; the
\* next tick returns Ok(true), moves nothing, and the driver names the
\* contributor.
C20_OneSidedEndsGame ==
    [][ /\ OnlyPlayer1Contributed =>
              /\ result = "Ok(false)"
              /\ Lost2
              /\ Count1 = Len(all_cards)
              /\ result' = "Ok(true)"
              /\ UNCHANGED piles
              /\ player_1_won(game_state') /\ ~player_2_won(game_state')
              /\ Message(game_state') = "Player 1 Won!"
        /\ OnlyPlayer2Contributed =>
              /\ result = "Ok(false)"
              /\ Lost1
              /\ Count2 = Len(all_cards)
              /\ result' = "Ok(true)"
              /\ UNCHANGED piles
              /\ player_2_won(game_state') /\ ~player_1_won(game_state')
              /\ Message(game_state') = "Player 2 Won!" ]_vars

\* C20 witness: a war decided in its first pass with player 2 putting
\* nothing down, after which player 1 holds every card.
C20_Witness ==
    /\ OnlyPlayer1Contributed
    /\ rounds = 1
    /\ result = "Ok(false)"
    /\ ordering = "Greater"
    /\ Lost2
    /\ Count1 = Len(all_cards)

\* The cards the two players held when the last tick began to play.
InPlay ==
    Len(refilled.h1) + Len(refilled.c1) + Len(refilled.h2) + Len(refilled.c2)

\* The passes of the last tick's tiebreak loop that ended in a tie: all but
\* the last one, which was decided or hit the fatal branch.
TiedRounds == rounds - 1

\* reward_cards as the last pass of the loop found it.
PotBefore == SubSeq(reward_cards, 1, round_start)

\* C21: the tiebreak loop of a tick exits.  Every pass that ended in a tie
\* took at least one card from each player, so when the last pass began the
\* pot held the two played cards and at least one card of each player for
\* every tied pass; the tied passes are therefore at most (n - 2) / 2 for
\* the n cards in play (25 for 52 cards), and the tick ends decided or in
\* the fatal branch.
C21_LoopExits ==
    rounds > 0 =>
        /\ result \in {"Ok(false)", "unreachable"}
        /\ ordering \in {"Less", "Greater", "unreachable"}
        /\ round_start >= 2 + 2 * TiedRounds
        /\ Len(SelectSeq(PotBefore, Owned1)) >= 1 + TiedRounds
        /\ Len(SelectSeq(PotBefore, Owned2)) >= 1 + TiedRounds
        /\ 2 * TiedRounds <= InPlay - 2

\* C21 witness: a tick whose loop tied once and was decided for player 1 in
\* its second pass.
C21_Witness ==
    /\ result = "Ok(false)"
    /\ rounds = 2
    /\ TiedRounds = 1
    /\ round_start >= 4
    /\ ordering = "Greater"
    /\ Len(reward_cards) > round_start

\* The last call was deal_all_cards or deal_all_cards_to_hands.
DealtAll == call.op \in {"deal_all_cards", "deal_all_cards_to_hands"}

\* C22: deal_all_cards and deal_all_cards_to_hands complete with Ok or
\* NotEnoughCards for every recipient count and every deck, zero recipients
\* included, and with zero recipients the deck is left unchanged.
C22_DealAllNeverAborts ==
    DealtAll =>
        /\ call.res \in {"Ok", "NotEnoughCards"}
        /\ call.hand_count = 0 => call.deck = call.deck0

\* What the code does: with at least one recipient the call returns Ok or
\* NotEnoughCards; with none it divides by zero and aborts, on an empty deck
\* and on any other, before it has touched the deck or the hands.
C22_DealAllAbortsOnZero ==
    DealtAll =>
        /\ call.hand_count >= 1 => call.res \in {"Ok", "NotEnoughCards"}
        /\ call.hand_count = 0 =>
              /\ call.res = "panic"
              /\ call.deck = call.deck0
              /\ call.hands = call.hands0

====
